---- MODULE Spec2Model ----
(***************************************************************************)
(* A model of the database connection lifecycle of                        *)
(* packages/cli/src/databases/db-connection.ts (class DbConnection), of   *)
(* the option builder it calls (class DbConnectionOptions) and of the     *)
(* Azure token services (AzurePostgresAuth, AzureTokenService).            *)
(*                                                                         *)
(* Spec runs the connection manager, TokenSpec a token service and         *)
(* OptionsSpec the option builder; each leaves the other two idle.         *)
(*                                                                         *)
(* JavaScript runs one task at a time, so every action below is the code   *)
(* between two suspension points (await) of one async method.  The         *)
(* persistence engine (DataSource of @n8n/typeorm), the timer queue and    *)
(* the error reporter are the environment: the model keeps exactly the     *)
(* part of their state the code reads (isInitialized, the armed timers,    *)
(* the errors reported).                                                   *)
(***************************************************************************)
EXTENDS Integers, Sequences, FiniteSets, Bags, TLC

\* ---------------------------------------------------------------- bounds
\* Largest number of calls of init/migrate/close suspended (awaiting the
\* engine or the option builder) at once.
MaxCalls == 2
\* Largest number of health-check loops (armed timers + queries in flight +
\* opens under way) the model lets exist at once.
MaxLoops == 2
\* Largest number of getToken() calls suspended at once on one token service.
MaxTokenCalls == 2


\* ------------------------------------------------------- configuration
DbTypes == {"sqlite", "postgresdb", "mysqldb", "mariadb", "unsupported"}
AuthTypes == {"password", "azure_entra_id"}
\* Values of postgresdb.connectionTimeoutMs the model draws from.
ConnectTimeouts == {20000}
Undefined == "undefined"

\* A string the code takes apart (logging.options) is a sequence of its
\* characters.
LogAll == <<"a", "l", "l">>
LogQueryError == <<"q", "u", "e", "r", "y", ",", " ", "e", "r", "r", "o", "r">>

\* A DatabaseConfig with the values the defaults and the fixtures give it.  A
\* port is an optional number (<<>> when undefined, <<n>> when given).
DefaultConfig ==
  [type |-> "sqlite",
   tablePrefix |-> "test_prefix_",
   logging |-> [enabled |-> FALSE, options |-> LogAll, maxQueryExecutionTime |-> 0],
   sqlite |-> [database |-> "database.sqlite", poolSize |-> 0, enableWAL |-> FALSE],
   postgresdb |->
     [database |-> "test_db", host |-> "localhost", port |-> <<5432>>, user |-> "postgres",
      password |-> "pg-password", schema |-> "public", poolSize |-> 2,
      connectionTimeoutMs |-> 20000, idleTimeoutMs |-> 30000,
      authType |-> "password",
      azureTenantId |-> "", azureClientId |-> "", azureClientSecret |-> "",
      ssl |-> [enabled |-> FALSE, ca |-> "", cert |-> "", key |-> "",
               rejectUnauthorized |-> TRUE]],
   mysqldb |-> [database |-> "test_db", host |-> "localhost", port |-> <<3306>>,
                user |-> "root", password |-> "mysql-password"]]

\* The configurations a manager is constructed with.  authType is a field of
\* the postgresdb section (config.postgresdb.authType): it is drawn for the
\* postgresdb backend, and left at its default under the others.
Configs ==
  {[DefaultConfig EXCEPT !.type = t, !.postgresdb.authType = a,
                         !.postgresdb.connectionTimeoutMs = ms] :
     <<t, a, ms>> \in {x \in DbTypes \X AuthTypes \X ConnectTimeouts :
                         x[2] = "azure_entra_id" => x[1] = "postgresdb"}}

\* db-connection.ts:59, the message the postgres driver gives on a timeout.
TimeoutMessage == "Connection terminated due to connection timeout"
OtherMessage == "connect ECONNREFUSED"

\* ------------------------------------------------------------- errors
NoError == [name |-> "", message |-> "", configuredTimeoutInMs |-> Undefined, cause |-> ""]

\* A plain Error (or engine error) with a message.
PlainError(name, message) ==
  [name |-> name, message |-> message, configuredTimeoutInMs |-> Undefined, cause |-> ""]

\* db-connection-not-initialized.error.ts
DbConnectionNotInitializedError ==
  PlainError("DbConnectionNotInitializedError",
             "Database connection is not initialized. The init() method must be called before attempting database operations.")

\* new DbConnectionTimeoutError({cause, configuredTimeoutInMs})
DbConnectionTimeoutError(cause, ms) ==
  [name |-> "DbConnectionTimeoutError", message |-> "Could not establish database connection within the configured timeout",
   configuredTimeoutInMs |-> ms, cause |-> cause.message]

\* The result of a call of init(), migrate() or close(): the state of the
\* promise the call returned.
NoCall == [status |-> "none", error |-> NoError]
Pending == [status |-> "pending", error |-> NoError]
Returned == [status |-> "returned", error |-> NoError]
Threw(e) == [status |-> "threw", error |-> e]

\* --------------------------------------------------- DbConnectionOptions
\* instanceSettingsConfig.n8nFolder and moduleRegistry.entities
n8nFolder == "/test/n8n"
moduleEntities == <<>>

\* new UserError(message, { extra })
UserError(message, extra) == [name |-> "UserError", message |-> message, extra |-> extra]

\* What getOptions() gives: the options it resolves with or the error it
\* rejects with, and the number of calls of AzureTokenService.getToken() made
\* on the way.  In the options of every backend connectTimeoutMS is spelled
\* out: a property an object does not have reads as undefined.
NoOptions == [type |-> Undefined, connectTimeoutMS |-> Undefined]
Built(options, tokenCalls) ==
  [ok |-> TRUE, error |-> NoError, options |-> options, tokenCalls |-> tokenCalls]
Rejected(error, tokenCalls) ==
  [ok |-> FALSE, error |-> error, options |-> NoOptions, tokenCalls |-> tokenCalls]

\* { ...a, ...b }: the properties of b, then those of a that b does not have.
Spread(a, b) == b @@ a

\* x || undefined, for a string x.
OrUndefined(x) == IF x = "" THEN Undefined ELSE x

\* String.prototype.replace(/\s+/g, '')
Whitespace == {" ", "\t", "\n"}
IsInk(ch) == ch \notin Whitespace
stripWhitespace(s) == SelectSeq(s, IsInk)

\* String.prototype.split(sep)
RECURSIVE split(_, _)
split(s, sep) ==
  IF \E i \in 1..Len(s) : s[i] = sep
  THEN LET i == CHOOSE k \in 1..Len(s) : s[k] = sep /\ \A j \in 1..(k - 1) : s[j] # sep
       IN <<SubSeq(s, 1, i - 1)>> \o split(SubSeq(s, i + 1, Len(s)), sep)
  ELSE <<s>>

\* path.resolve(folder, p) of Node: it throws a TypeError when p is not a
\* string, ignores an empty p, and lets an absolute p replace the folder.
AbsolutePaths == {"/data/n8n.sqlite"}
pathResolve(folder, p) ==
  CASE p = Undefined ->
         [ok |-> FALSE, value |-> Undefined,
          error |-> PlainError("TypeError", "The \"paths[1]\" argument must be of type string. Received undefined")]
    [] p = "" -> [ok |-> TRUE, value |-> folder, error |-> NoError]
    [] p \in AbsolutePaths -> [ok |-> TRUE, value |-> p, error |-> NoError]
    [] OTHER -> [ok |-> TRUE, value |-> folder \o "/" \o p, error |-> NoError]

\* getOverrides() with a check of the host: an absent or empty host is
\* replaced by 'localhost'.
getOverrides_DefaultHost(cfg, dbType) ==
  LET dbConfig == cfg[dbType]
  IN [database |-> dbConfig.database,
      host |-> IF dbConfig.host \in {Undefined, ""} THEN "localhost" ELSE dbConfig.host,
      port |-> dbConfig.port,
      username |-> dbConfig.user,
      password |-> dbConfig.password]

\* getOverrides
getOverrides(cfg, dbType) ==
  LET dbConfig == cfg[dbType]
  IN [database |-> dbConfig.database,
      host |-> dbConfig.host,
      port |-> dbConfig.port,
      username |-> dbConfig.user,
      password |-> dbConfig.password]

\* isAzureAuthEnabled
isAzureAuthEnabled(cfg) == cfg.postgresdb.authType = "azure_entra_id"

\* createAzureTokenService: the configuration of the token service it builds.
createAzureTokenService(cfg) ==
  [tenantId |-> cfg.postgresdb.azureTenantId,
   clientId |-> cfg.postgresdb.azureClientId,
   clientSecret |-> cfg.postgresdb.azureClientSecret,
   tokenRefreshMargin |-> <<>>]

\* getPostgresOverrides() without the branch on the auth mode: the password
\* is the configured literal and no token is asked for.
getPostgresOverrides_LiteralPassword(cfg, token) ==
  [ok |-> TRUE, error |-> NoError, tokenCalls |-> 0,
   overrides |-> getOverrides(cfg, "postgresdb")]

\* getPostgresOverrides.  token is what (await azureTokenService.getToken())
\* settles with, consulted only where the code makes the call.
getPostgresOverrides(cfg, token) ==
  LET dbConfig == cfg.postgresdb
      baseOverrides == [database |-> dbConfig.database,
                        host |-> dbConfig.host,
                        port |-> dbConfig.port,
                        username |-> dbConfig.user]
  IN IF isAzureAuthEnabled(cfg)
     THEN IF token.status = "returned"
          THEN [ok |-> TRUE, error |-> NoError, tokenCalls |-> 1,
                overrides |-> Spread(baseOverrides, [password |-> token.value])]
          ELSE [ok |-> FALSE, error |-> token.error, tokenCalls |-> 1,
                overrides |-> baseOverrides]
     ELSE [ok |-> TRUE, error |-> NoError, tokenCalls |-> 0,
           overrides |-> Spread(baseOverrides, [password |-> dbConfig.password])]

\* getCommonOptions.  LoggerOptions is a boolean, the string 'all' or a list.
getCommonOptions(cfg) ==
  LET entityPrefix == cfg.tablePrefix
      loggingConfig == cfg.logging
      optionsString == stripWhitespace(loggingConfig.options)
      loggingOption ==
        IF loggingConfig.enabled
        THEN IF optionsString = LogAll
             THEN [kind |-> "string", value |-> optionsString]
             ELSE [kind |-> "list", value |-> split(optionsString, ",")]
        ELSE [kind |-> "boolean", value |-> FALSE]
  IN [entityPrefix |-> entityPrefix,
      entities |-> <<"entities">> \o moduleEntities,
      subscribers |-> <<"subscribers">>,
      migrationsTableName |-> entityPrefix \o "migrations",
      migrationsRun |-> FALSE,
      synchronize |-> FALSE,
      maxQueryExecutionTime |-> loggingConfig.maxQueryExecutionTime,
      logging |-> loggingOption]

\* getSqliteConnectionOptions() taking the WAL flag from the configuration in
\* the pooled variant too.
getSqliteConnectionOptions_PooledKeepsWAL(cfg) ==
  LET sqliteConfig == cfg.sqlite
      resolved == pathResolve(n8nFolder, sqliteConfig.database)
      commonOptions == Spread(getCommonOptions(cfg),
                              [database |-> resolved.value, migrations |-> "sqliteMigrations"])
  IN IF ~resolved.ok
     THEN Rejected(resolved.error, 0)
     ELSE Built(Spread([type |-> IF sqliteConfig.poolSize > 0 THEN "sqlite-pooled" ELSE "sqlite",
                        poolSize |-> sqliteConfig.poolSize,
                        enableWAL |-> sqliteConfig.enableWAL,
                        acquireTimeout |-> 60000,
                        destroyTimeout |-> 5000,
                        connectTimeoutMS |-> Undefined],
                       commonOptions), 0)

\* getSqliteConnectionOptions
getSqliteConnectionOptions(cfg) ==
  LET sqliteConfig == cfg.sqlite
      resolved == pathResolve(n8nFolder, sqliteConfig.database)
      commonOptions == Spread(getCommonOptions(cfg),
                              [database |-> resolved.value, migrations |-> "sqliteMigrations"])
  IN IF ~resolved.ok
     THEN Rejected(resolved.error, 0)
     ELSE IF sqliteConfig.poolSize > 0
          THEN Built(Spread([type |-> "sqlite-pooled",
                             poolSize |-> sqliteConfig.poolSize,
                             enableWAL |-> TRUE,
                             acquireTimeout |-> 60000,
                             destroyTimeout |-> 5000,
                             connectTimeoutMS |-> Undefined],
                            commonOptions), 0)
          ELSE Built(Spread([type |-> "sqlite",
                             enableWAL |-> sqliteConfig.enableWAL,
                             connectTimeoutMS |-> Undefined],
                            commonOptions), 0)

\* The value of ssl, computed without looking at rejectUnauthorized.
postgresSsl_IgnoresRejectUnauthorized(cfg) ==
  LET sslCa == cfg.postgresdb.ssl.ca
      sslCert == cfg.postgresdb.ssl.cert
      sslKey == cfg.postgresdb.ssl.key
  IN IF sslCa # "" \/ sslCert # "" \/ sslKey # ""
     THEN [kind |-> "TlsOptions",
           ca |-> OrUndefined(sslCa),
           cert |-> OrUndefined(sslCert),
           key |-> OrUndefined(sslKey),
           rejectUnauthorized |-> cfg.postgresdb.ssl.rejectUnauthorized]
     ELSE [kind |-> "boolean", value |-> cfg.postgresdb.ssl.enabled]

\* The value of ssl getPostgresConnectionOptions computes: ssl.enabled, or a
\* TlsOptions object.
postgresSsl(cfg) ==
  LET sslCa == cfg.postgresdb.ssl.ca
      sslCert == cfg.postgresdb.ssl.cert
      sslKey == cfg.postgresdb.ssl.key
      sslRejectUnauthorized == cfg.postgresdb.ssl.rejectUnauthorized
  IN IF sslCa # "" \/ sslCert # "" \/ sslKey # "" \/ ~sslRejectUnauthorized
     THEN [kind |-> "TlsOptions",
           ca |-> OrUndefined(sslCa),
           cert |-> OrUndefined(sslCert),
           key |-> OrUndefined(sslKey),
           rejectUnauthorized |-> sslRejectUnauthorized]
     ELSE [kind |-> "boolean", value |-> cfg.postgresdb.ssl.enabled]

\* getPostgresConnectionOptions
getPostgresConnectionOptions(cfg, token) ==
  LET postgresConfig == cfg.postgresdb
      ssl == postgresSsl(cfg)
      o == getPostgresOverrides(cfg, token)
  IN IF ~o.ok
     THEN Rejected(o.error, o.tokenCalls)
     ELSE Built(Spread(Spread(Spread([type |-> "postgres"], getCommonOptions(cfg)),
                              o.overrides),
                       [schema |-> postgresConfig.schema,
                        poolSize |-> postgresConfig.poolSize,
                        migrations |-> "postgresMigrations",
                        connectTimeoutMS |-> postgresConfig.connectionTimeoutMs,
                        ssl |-> ssl,
                        extra |-> [idleTimeoutMillis |-> postgresConfig.idleTimeoutMs]]),
                o.tokenCalls)

\* getMysqlConnectionOptions
getMysqlConnectionOptions(cfg, dbType) ==
  Built(Spread(Spread(Spread([type |-> IF dbType = "mysqldb" THEN "mysql" ELSE "mariadb",
                              connectTimeoutMS |-> Undefined],
                             getCommonOptions(cfg)),
                      getOverrides(cfg, "mysqldb")),
               [migrations |-> "mysqlMigrations", timezone |-> "Z"]), 0)

\* getOptions() without its default branch: a selector the switch does not
\* name is handed to the postgres builder.
getOptions_NoDefaultBranch(cfg, token) ==
  LET dbType == cfg.type
  IN CASE dbType = "sqlite" -> getSqliteConnectionOptions(cfg)
       [] dbType \in {"mariadb", "mysqldb"} -> getMysqlConnectionOptions(cfg, dbType)
       [] OTHER -> getPostgresConnectionOptions(cfg, token)

\* getOptions(): the switch on the backend selector.
getOptions(cfg, token) ==
  LET dbType == cfg.type
  IN CASE dbType = "sqlite" -> getSqliteConnectionOptions(cfg)
       [] dbType = "postgresdb" -> getPostgresConnectionOptions(cfg, token)
       [] dbType \in {"mariadb", "mysqldb"} -> getMysqlConnectionOptions(cfg, dbType)
       [] OTHER -> Rejected(UserError("Database type currently not supported",
                                      [dbType |-> dbType]), 0)

\* ------------------------------------------ token service: data
\* The two token services of the sources: AzurePostgresAuth (azure-auth.ts)
\* and AzureTokenService (azure-token.service.ts), the one the option
\* builder creates.
AzServices == {"AzurePostgresAuth", "AzureTokenService"}

\* An optional number: <<>> when undefined, <<n>> when given.
NotGiven == <<>>

\* A value JavaScript treats as false in a condition.
Falsy(x) == x \in {Undefined, ""}

\* x || d, for an optional number x.
OrDefault(x, d) == IF x = NotGiven \/ x[1] = 0 THEN d ELSE x[1]

\* The configurations a token service is constructed with.
\* AzureTokenConfig has no tokenRefreshMargin.
AzConfigs(service) ==
  [tenantId : {Undefined, "tenant-123"},
   clientId : {Undefined, "", "client-123"},
   clientSecret : {Undefined, "secret-123"},
   tokenRefreshMargin : IF service = "AzurePostgresAuth"
                        THEN {NotGiven, <<0>>, <<60>>}
                        ELSE {NotGiven}]

\* azure-auth.ts:84, the margin in seconds when none is configured, and the
\* factor that converts it to milliseconds.
DefaultRefreshMarginSeconds == 300
MillisecondsPerSecond == 1000

\* The refresh margin in milliseconds: azure-auth.ts:84 and
\* azure-token.service.ts:328.
refreshMargin(service, cfg) ==
  IF service = "AzurePostgresAuth"
  THEN OrDefault(cfg.tokenRefreshMargin, DefaultRefreshMarginSeconds) * MillisecondsPerSecond
  ELSE 5 * 60 * 1000

\* The instants Date.now() takes, and the lifetimes of the tokens the
\* provider issues: on both sides of the margins of 60 s and 300 s.
Clock == {0, 3300000, 3300001}
Lifetimes == {59999, 60000, 299999, 300000, 3600000}
\* The token strings the provider returns; the empty string is one of them.
TokenValues == {"", "token-1", "token-2"}

\* this.credential and this.cachedToken when unset.
NoCredential ==
  [class |-> Undefined, tenantId |-> Undefined, clientId |-> Undefined,
   clientSecret |-> Undefined, managedIdentityClientId |-> Undefined]
NoToken == [token |-> Undefined, expiresOnTimestamp |-> 0]

\* new ClientSecretCredential(tenantId, clientId, clientSecret)
ClientSecretCredential(tenantId, clientId, clientSecret) ==
  [class |-> "ClientSecretCredential", tenantId |-> tenantId, clientId |-> clientId,
   clientSecret |-> clientSecret, managedIdentityClientId |-> Undefined]

\* new DefaultAzureCredential({managedIdentityClientId}), and
\* new DefaultAzureCredential() when managedIdentityClientId is Undefined.
DefaultAzureCredential(managedIdentityClientId) ==
  [class |-> "DefaultAzureCredential", tenantId |-> Undefined, clientId |-> Undefined,
   clientSecret |-> Undefined, managedIdentityClientId |-> managedIdentityClientId]

\* azure-authentication.error.ts: the operation is part of the message; the
\* record also keeps it apart.  cause is the message of opts.cause, "" if none.
AzureAuthenticationError(message, operation, cause) ==
  [name |-> "AzureAuthenticationError",
   message |-> "Azure authentication failed during " \o operation \o ": " \o message,
   operation |-> operation, cause |-> cause]

\* The errors the identity library throws: from a constructor, from getToken().
ConstructionError == PlainError("Error", "Credential initialization failed")
ProviderError == PlainError("Error", "Token acquisition failed")

\* What getToken() throws, by the place it is thrown from.
InitializationFailed ==
  AzureAuthenticationError(ConstructionError.message, "initialization", ConstructionError.message)
ProviderFailed ==
  AzureAuthenticationError(ProviderError.message, "token_acquisition", ProviderError.message)
TokenIsNull == AzureAuthenticationError("Token is null", "token_acquisition", "")
TokenIsNullRethrown ==
  AzureAuthenticationError(TokenIsNull.message, "token_acquisition", TokenIsNull.message)
NoValidToken == AzureAuthenticationError("No valid access token available", "token_acquisition", "")

\* A call of getToken() that resolved with the string v.
Resolved(v) == [status |-> "returned", value |-> v]

\* ------------------------------------------------------------- state
VARIABLES
  config,          \* DatabaseConfig, fixed at construction
  inTest,          \* inTest of @n8n/backend-common
  dataSources,     \* the DataSource objects created so far: <<[options, isInitialized]>>
  dataSource,      \* this.dataSource: 0 (undefined) or an index of dataSources
  pingTimer,       \* this.pingTimer: "undefined", or the handle of a timer that is
                   \* "armed" or has "fired"
  orphans,         \* number of armed timers whose handle this.pingTimer no longer holds
  pinging,         \* number of ping() calls awaiting their query
  connectionState, \* this.connectionState
  calls,           \* the calls of init/migrate/close now suspended: a bag of [pc, ds]
  everConnected,   \* history: connected has been true
  sinceClose,      \* history: "no", or a close() has returned and no init() was called
                   \* since: "opening" if it returned with an init() under way, else
                   \* "busy" if with a query awaited or a handle open, else "quiet"
  ev               \* history: the step taken last, and what the call it ended gave

\* The token service.
VARIABLES
  azService,       \* which of the two classes the instance is
  azConfig,        \* this.config of the token service
  credential,      \* this.credential
  cachedToken,     \* this.cachedToken
  now,             \* Date.now()
  azCalls,         \* the calls of getToken() now suspended: a bag of [pc, got]
  azEv             \* history: the step of getToken() taken last and its result

\* The option builder, called on its own.
VARIABLES
  built            \* history: what the last call of getOptions() settled with, and
                   \* what the getToken() call it made (if any) had settled with

lifecycleVars == <<config, inTest, dataSources, dataSource, pingTimer, orphans, pinging,
                   connectionState, calls, everConnected, sinceClose, ev>>
authVars == <<azService, azConfig, credential, cachedToken, now, azCalls, azEv>>
builderVars == <<built>>
vars == <<lifecycleVars, authVars, builderVars>>

\* The record of a step: its name; when the step ends a call of init(),
\* migrate(), close() or ping(), the result of that call (Pending when it suspends);
\* and the errors the step gave to errorReporter.error, in order.
Event(step, result, reported) == [step |-> step, result |-> result, reported |-> reported]

\* The record of a step of the token service: its name, whether the call
\* reached refreshTokenIfNeeded() straight from the call ("call") or after
\* awaiting the import ("import"), and the result of the call.
AzEvent(step, from, result) == [step |-> step, from |-> from, result |-> result]

\* A token service nobody has constructed or called.
AuthIdle ==
  /\ azService = "AzureTokenService"
  /\ azConfig = [tenantId |-> Undefined, clientId |-> Undefined,
                 clientSecret |-> Undefined, tokenRefreshMargin |-> NotGiven]
  /\ credential = NoCredential
  /\ cachedToken = NoToken
  /\ now = 0
  /\ azCalls = EmptyBag
  /\ azEv = AzEvent("new", "", NoCall)

\* An option builder nobody has called.
NotBuilt == [status |-> "none", token |-> NoCall, result |-> Rejected(NoError, 0)]
BuilderIdle == built = NotBuilt

\* A connection manager nobody has called.
ManagerIdle ==
  /\ inTest = TRUE
  /\ dataSources = <<>>
  /\ dataSource = 0
  /\ pingTimer = "undefined"
  /\ orphans = 0
  /\ pinging = 0
  /\ connectionState = [connected |-> FALSE, migrated |-> FALSE]
  /\ calls = EmptyBag
  /\ everConnected = FALSE
  /\ sinceClose = "no"
  /\ ev = Event("new", NoCall, <<>>)

LifecycleIdle ==
  /\ config = DefaultConfig
  /\ ManagerIdle

Init ==
  /\ AuthIdle
  /\ BuilderIdle
  /\ config \in Configs
  /\ inTest \in BOOLEAN
  /\ dataSources = <<>>
  /\ dataSource = 0
  /\ pingTimer = "undefined"
  /\ orphans = 0
  /\ pinging = 0
  /\ connectionState = [connected |-> FALSE, migrated |-> FALSE]
  /\ calls = EmptyBag
  /\ everConnected = FALSE
  /\ sinceClose = "no"
  /\ ev = Event("new", NoCall, <<>>)

\* ------------------------------------------------------------ helpers
\* this.dataSource?.isInitialized
isInitialized == dataSource # 0 /\ dataSources[dataSource].isInitialized

\* Opens under way: calls of init() suspended in getOptions() or initialize().
Opening == {c \in BagToSet(calls) : c.pc \in {"init_getOptions", "init_initialize"}}

\* Number of suspended calls in a set of suspension points.
RECURSIVE Copies(_)
Copies(S) ==
  IF S = {} THEN 0
  ELSE LET c == CHOOSE x \in S : TRUE IN CopiesIn(c, calls) + Copies(S \ {c})

\* A new call may start: the model keeps at most MaxCalls calls suspended.
CanCall == BagCardinality(calls) < MaxCalls

\* Number of timers armed in the timer queue.
TimersArmed == orphans + (IF pingTimer = "armed" THEN 1 ELSE 0)

\* Health-check loops alive or about to be: every one of them ends in one
\* scheduleNextPing(), so this bounds the timers armed at once.
LoopsAlive == TimersArmed + pinging + Copies(Opening)

\* scheduleNextPing(): arm a new timer and keep its handle in this.pingTimer;
\* a timer whose handle was there and is still armed stays armed.
scheduleNextPing ==
  /\ orphans' = TimersArmed
  /\ pingTimer' = "armed"

\* Mutant of initCatch: the test of the backend is missing, so a timeout
\* message is wrapped whatever the backend is.
initCatch_AnyBackend(options, error) ==
  IF error.message = TimeoutMessage
  THEN DbConnectionTimeoutError(error, options.connectTimeoutMS)
  ELSE error

\* The catch block of init(): a postgres connection timeout becomes a
\* DbConnectionTimeoutError, any other error is rethrown as it is.
initCatch(options, error) ==
  IF options.type = "postgres" /\ error.message = TimeoutMessage
  THEN DbConnectionTimeoutError(error, options.connectTimeoutMS)
  ELSE error

\* A call that was not suspended ends (its promise settles) with result r.
Return(step, r) ==
  /\ ev' = Event(step, r, <<>>)
  /\ UNCHANGED calls

\* A call suspends at pc, awaiting the engine on DataSource d.
Suspend(step, pc, d) ==
  /\ calls' = calls (+) SetToBag({[pc |-> pc, ds |-> d]})
  /\ ev' = Event(step, Pending, <<>>)

\* The suspended call c ends with result r.
Finish(c, step, r) ==
  /\ calls' = calls (-) SetToBag({c})
  /\ ev' = Event(step, r, <<>>)

\* The suspended call c moves on to its next suspension point.
Resuspend(c, step, pc, d) ==
  /\ calls' = (calls (-) SetToBag({c})) (+) SetToBag({[pc |-> pc, ds |-> d]})
  /\ ev' = Event(step, Pending, <<>>)

\* The calls suspended at pc.
At(pc) == {c \in BagToSet(calls) : c.pc = pc}

\* -------------------------------------------------------------- init()
\* What init() throws when the engine rejects initialize() at once, because
\* the DataSource is already initialized: the engine's error, through the
\* catch block.
alreadyConnected(source) ==
  Threw(initCatch(source.options,
                  PlainError("CannotConnectAlreadyConnectedError", "already connected")))

\* Mutant of InitStart: the test of connectionState.connected is missing.
InitStart_NoConnectedCheck ==
  /\ CanCall
  /\ sinceClose' = "no"
  /\ LoopsAlive < MaxLoops
  /\ IF dataSource = 0
     THEN Suspend("init.getOptions", "init_getOptions", 0)
     ELSE IF dataSources[dataSource].isInitialized
          THEN Return("init.alreadyInitialized", alreadyConnected(dataSources[dataSource]))
          ELSE Suspend("init.initialize", "init_initialize", dataSource)
  /\ UNCHANGED <<config, inTest, dataSources, dataSource, pingTimer, orphans, pinging,
                 connectionState, everConnected>>
  /\ UNCHANGED <<authVars, builderVars>>

\* init(), from the call to its first suspension.
InitStart ==
  /\ CanCall
  /\ sinceClose' = "no"
  /\ IF connectionState.connected
     THEN Return("init.noop", Returned)
     ELSE /\ LoopsAlive < MaxLoops
          /\ IF dataSource = 0
             THEN Suspend("init.getOptions", "init_getOptions", 0)
             ELSE IF dataSources[dataSource].isInitialized
                  THEN Return("init.alreadyInitialized", alreadyConnected(dataSources[dataSource]))
                  ELSE Suspend("init.initialize", "init_initialize", dataSource)
  /\ UNCHANGED <<config, inTest, dataSources, dataSource, pingTimer, orphans, pinging,
                 connectionState, everConnected>>
  /\ UNCHANGED <<authVars, builderVars>>

\* init(), resumed when getOptions() settles: new DataSource(options), then
\* the call of initialize() on it.
InitOptionsDone(c, token) ==
  /\ c \in At("init_getOptions")
  /\ LET r == getOptions(config, token)
         created == Append(dataSources, [options |-> r.options, isInitialized |-> FALSE])
     IN IF r.ok
        THEN /\ dataSources' = created
             /\ dataSource' = Len(created)
             /\ Resuspend(c, "init.created", "init_initialize", Len(created))
        ELSE /\ Finish(c, "init.getOptionsFailed", Threw(r.error))
             /\ UNCHANGED <<dataSources, dataSource>>
  /\ UNCHANGED <<config, inTest, pingTimer, orphans, pinging, connectionState,
                 everConnected, sinceClose>>
  /\ UNCHANGED <<authVars, builderVars>>

\* Mutant of InitDone: the health check is started in test mode too.
InitDone_AlwaysSchedules(c, outcome) ==
  /\ c \in At("init_initialize")
  /\ IF outcome = "ok"
     THEN /\ dataSources' = [dataSources EXCEPT ![c.ds].isInitialized = TRUE]
          /\ connectionState' = [connectionState EXCEPT !.connected = TRUE]
          /\ everConnected' = TRUE
          /\ scheduleNextPing
          /\ Finish(c, "init.connected", Returned)
     ELSE /\ Finish(c, "init.failed",
                    Threw(initCatch(dataSources[dataSource].options,
                                    PlainError("Error", outcome))))
          /\ UNCHANGED <<dataSources, connectionState, everConnected, orphans, pingTimer>>
  /\ UNCHANGED <<config, inTest, dataSource, pinging, sinceClose>>
  /\ UNCHANGED <<authVars, builderVars>>

\* Mutant of InitDone: connected is set and the health check started before
\* initialize() is awaited, so a failed open leaves both behind.
InitDone_FlagBeforeOpen(c, outcome) ==
  /\ c \in At("init_initialize")
  /\ connectionState' = [connectionState EXCEPT !.connected = TRUE]
  /\ everConnected' = TRUE
  /\ IF ~inTest THEN scheduleNextPing ELSE UNCHANGED <<orphans, pingTimer>>
  /\ IF outcome = "ok"
     THEN /\ dataSources' = [dataSources EXCEPT ![c.ds].isInitialized = TRUE]
          /\ Finish(c, "init.connected", Returned)
     ELSE /\ Finish(c, "init.failed",
                    Threw(initCatch(dataSources[dataSource].options,
                                    PlainError("Error", outcome))))
          /\ UNCHANGED dataSources
  /\ UNCHANGED <<config, inTest, dataSource, pinging, sinceClose>>
  /\ UNCHANGED <<authVars, builderVars>>

\* init(), resumed when initialize() settles: outcome is "ok" or the message
\* of the error the engine threw.
InitDone(c, outcome) ==
  /\ c \in At("init_initialize")
  /\ IF outcome = "ok"
     THEN /\ dataSources' = [dataSources EXCEPT ![c.ds].isInitialized = TRUE]
          /\ connectionState' = [connectionState EXCEPT !.connected = TRUE]
          /\ everConnected' = TRUE
          /\ IF ~inTest THEN scheduleNextPing ELSE UNCHANGED <<orphans, pingTimer>>
          /\ Finish(c, "init.connected", Returned)
     ELSE /\ Finish(c, "init.failed",
                    Threw(initCatch(dataSources[dataSource].options,
                                    PlainError("Error", outcome))))
          /\ UNCHANGED <<dataSources, connectionState, everConnected, orphans, pingTimer>>
  /\ UNCHANGED <<config, inTest, dataSource, pinging, sinceClose>>
  /\ UNCHANGED <<authVars, builderVars>>

\* ----------------------------------------------------------- migrate()
\* Mutant of MigrateStart: the migrated flag is raised when migrate() is
\* called, not when the migrations have run.
MigrateStart_FlagFirst ==
  /\ CanCall
  /\ connectionState' = [connectionState EXCEPT !.migrated = TRUE]
  /\ IF dataSource = 0
     THEN Return("migrate.notInitialized", Threw(DbConnectionNotInitializedError))
     ELSE IF ~dataSources[dataSource].isInitialized
          THEN Return("migrate.notConnected",
                      Threw(PlainError("CannotExecuteNotConnectedError", "not connected")))
          ELSE Suspend("migrate.runMigrations", "migrate_run", dataSource)
  /\ UNCHANGED <<config, inTest, dataSources, dataSource, pingTimer, orphans, pinging,
                 everConnected, sinceClose>>
  /\ UNCHANGED <<authVars, builderVars>>

\* migrate(), from the call to its suspension in runMigrations().  The
\* engine rejects runMigrations() at once on a DataSource that is not
\* initialized.
MigrateStart ==
  /\ CanCall
  /\ IF dataSource = 0
     THEN Return("migrate.notInitialized", Threw(DbConnectionNotInitializedError))
     ELSE IF ~dataSources[dataSource].isInitialized
          THEN Return("migrate.notConnected",
                      Threw(PlainError("CannotExecuteNotConnectedError", "not connected")))
          ELSE Suspend("migrate.runMigrations", "migrate_run", dataSource)
  /\ UNCHANGED <<config, inTest, dataSources, dataSource, pingTimer, orphans, pinging,
                 connectionState, everConnected, sinceClose>>
  /\ UNCHANGED <<authVars, builderVars>>

\* The error runMigrations() rejects with when a migration fails.
MigrationError == PlainError("Error", "migration failed")

\* Mutant of MigrateDone: the migrated flag is raised in a finally block,
\* whether the migrations ran or failed.
MigrateDone_FlagInFinally(c, ok) ==
  /\ c \in At("migrate_run")
  /\ connectionState' = [connectionState EXCEPT !.migrated = TRUE]
  /\ IF ok
     THEN Finish(c, "migrate.migrated", Returned)
     ELSE Finish(c, "migrate.failed", Threw(MigrationError))
  /\ UNCHANGED <<config, inTest, dataSources, dataSource, pingTimer, orphans, pinging,
                 everConnected, sinceClose>>
  /\ UNCHANGED <<authVars, builderVars>>

\* migrate(), resumed when runMigrations() settles.
MigrateDone(c, ok) ==
  /\ c \in At("migrate_run")
  /\ IF ok
     THEN /\ connectionState' = [connectionState EXCEPT !.migrated = TRUE]
          /\ Finish(c, "migrate.migrated", Returned)
     ELSE /\ Finish(c, "migrate.failed", Threw(MigrationError))
          /\ UNCHANGED connectionState
  /\ UNCHANGED <<config, inTest, dataSources, dataSource, pingTimer, orphans, pinging,
                 everConnected, sinceClose>>
  /\ UNCHANGED <<authVars, builderVars>>

\* ------------------------------------------------------------- close()
\* What a returning close() leaves behind, for the history variable.
Quiet(sources, inFlight) ==
  IF Opening # {} THEN "opening"
  ELSE IF /\ dataSource # 0 => ~sources[dataSource].isInitialized
          /\ inFlight = 0
       THEN "quiet" ELSE "busy"

\* Mutant of CloseStart: destroy() is called whenever a DataSource exists,
\* initialized or not.
CloseStart_DestroyUninitialized ==
  /\ CanCall
  /\ IF pingTimer # "undefined"
     THEN pingTimer' = "undefined"
     ELSE UNCHANGED pingTimer
  /\ UNCHANGED orphans
  /\ IF dataSource # 0
     THEN /\ Suspend("close.destroy", "close_destroy", dataSource)
          /\ UNCHANGED sinceClose
     ELSE /\ Return("close.returned", Returned)
          /\ sinceClose' = Quiet(dataSources, pinging)
  /\ UNCHANGED <<config, inTest, dataSources, dataSource, pinging, connectionState,
                 everConnected>>
  /\ UNCHANGED <<authVars, builderVars>>

\* close(), from the call to its suspension in destroy().
CloseStart ==
  /\ CanCall
  /\ IF pingTimer # "undefined"
     THEN pingTimer' = "undefined"
     ELSE UNCHANGED pingTimer
  /\ UNCHANGED orphans
  /\ IF isInitialized
     THEN /\ Suspend("close.destroy", "close_destroy", dataSource)
          /\ UNCHANGED sinceClose
     ELSE /\ Return("close.returned", Returned)
          /\ sinceClose' = Quiet(dataSources, pinging)
  /\ UNCHANGED <<config, inTest, dataSources, dataSource, pinging, connectionState,
                 everConnected>>
  /\ UNCHANGED <<authVars, builderVars>>

\* Mutant of CloseDone: close() puts the whole ConnectionState back to its
\* initial value.
CloseDone_ResetsState(c) ==
  /\ c \in At("close_destroy")
  /\ dataSources' = [dataSources EXCEPT ![c.ds].isInitialized = FALSE]
  /\ connectionState' = [connected |-> FALSE, migrated |-> FALSE]
  /\ Finish(c, "close.destroyed", Returned)
  /\ sinceClose' = Quiet(dataSources', pinging)
  /\ UNCHANGED <<config, inTest, dataSource, pingTimer, orphans, pinging,
                 everConnected>>
  /\ UNCHANGED <<authVars, builderVars>>

\* close(), resumed when destroy() has closed the handle.
CloseDone(c) ==
  /\ c \in At("close_destroy")
  /\ dataSources' = [dataSources EXCEPT ![c.ds].isInitialized = FALSE]
  /\ connectionState' = [connectionState EXCEPT !.connected = FALSE]
  /\ Finish(c, "close.destroyed", Returned)
  /\ sinceClose' = Quiet(dataSources', pinging)
  /\ UNCHANGED <<config, inTest, dataSource, pingTimer, orphans, pinging,
                 everConnected>>
  /\ UNCHANGED <<authVars, builderVars>>

\* -------------------------------------------------------------- ping()
\* The timer that fires leaves the timer queue.
Fire(held) ==
  IF held
  THEN /\ pingTimer = "armed"
       /\ pingTimer' = "fired"
       /\ UNCHANGED orphans
  ELSE /\ orphans > 0
       /\ orphans' = orphans - 1
       /\ UNCHANGED pingTimer

\* Mutant of TimerFire: ping() issues its query without testing isInitialized.
TimerFire_NoGuard(held) ==
  /\ Fire(held)
  /\ pinging' = pinging + 1
  /\ ev' = Event("ping.query", Pending, <<>>)
  /\ UNCHANGED <<config, inTest, dataSources, dataSource, connectionState,
                 calls, everConnected, sinceClose>>
  /\ UNCHANGED <<authVars, builderVars>>

\* Mutant of TimerFire: the early return of ping() sits inside the try block,
\* so the finally block schedules the next tick.
TimerFire_SkipReschedules(held) ==
  /\ IF held THEN pingTimer = "armed" ELSE orphans > 0
  /\ IF ~isInitialized
     THEN /\ orphans' = IF held THEN orphans
                        ELSE orphans - 1 + (IF pingTimer = "armed" THEN 1 ELSE 0)
          /\ pingTimer' = "armed"
          /\ ev' = Event("ping.skip", Returned, <<>>)
          /\ UNCHANGED pinging
     ELSE /\ Fire(held)
          /\ pinging' = pinging + 1
          /\ ev' = Event("ping.query", Pending, <<>>)
  /\ UNCHANGED <<config, inTest, dataSources, dataSource, connectionState,
                 calls, everConnected, sinceClose>>
  /\ UNCHANGED <<authVars, builderVars>>

\* A timer fires (the one this.pingTimer holds, or another) and runs ping()
\* up to its suspension in query().
TimerFire(held) ==
  /\ Fire(held)
  /\ IF ~isInitialized
     THEN /\ ev' = Event("ping.skip", Returned, <<>>)
          /\ UNCHANGED pinging
     ELSE /\ pinging' = pinging + 1
          /\ ev' = Event("ping.query", Pending, <<>>)
  /\ UNCHANGED <<config, inTest, dataSources, dataSource, connectionState,
                 calls, everConnected, sinceClose>>
  /\ UNCHANGED <<authVars, builderVars>>

\* The error a failed liveness query throws.
QueryError == PlainError("QueryFailedError", "SELECT 1 failed")

\* Mutant of PingDone: the next tick is scheduled at the end of the try
\* block, not in a finally block, so a failed query ends the loop.
PingDone_NoRescheduleOnFailure(ok) ==
  /\ pinging > 0
  /\ pinging' = pinging - 1
  /\ IF ok
     THEN /\ connectionState' = [connectionState EXCEPT !.connected = TRUE]
          /\ everConnected' = TRUE
          /\ ev' = Event("ping.ok", Returned, <<>>)
          /\ scheduleNextPing
     ELSE /\ connectionState' = [connectionState EXCEPT !.connected = FALSE]
          /\ ev' = Event("ping.failed", Returned, <<QueryError>>)
          /\ UNCHANGED <<everConnected, orphans, pingTimer>>
  /\ UNCHANGED <<config, inTest, dataSources, dataSource, calls, sinceClose>>
  /\ UNCHANGED <<authVars, builderVars>>

\* Mutant of PingDone: a failed query flips the flag and reports nothing.
PingDone_SilentFailure(ok) ==
  /\ pinging > 0
  /\ pinging' = pinging - 1
  /\ IF ok
     THEN /\ connectionState' = [connectionState EXCEPT !.connected = TRUE]
          /\ everConnected' = TRUE
          /\ ev' = Event("ping.ok", Returned, <<>>)
     ELSE /\ connectionState' = [connectionState EXCEPT !.connected = FALSE]
          /\ ev' = Event("ping.failed", Returned, <<>>)
          /\ UNCHANGED everConnected
  /\ scheduleNextPing
  /\ UNCHANGED <<config, inTest, dataSources, dataSource, calls, sinceClose>>
  /\ UNCHANGED <<authVars, builderVars>>

\* ping(), resumed when the query settles, through its finally block.
PingDone(ok) ==
  /\ pinging > 0
  /\ pinging' = pinging - 1
  /\ IF ok
     THEN /\ connectionState' = [connectionState EXCEPT !.connected = TRUE]
          /\ everConnected' = TRUE
          /\ ev' = Event("ping.ok", Returned, <<>>)
     ELSE /\ connectionState' = [connectionState EXCEPT !.connected = FALSE]
          /\ ev' = Event("ping.failed", Returned, <<QueryError>>)
          /\ UNCHANGED everConnected
  /\ scheduleNextPing
  /\ UNCHANGED <<config, inTest, dataSources, dataSource, calls, sinceClose>>
  /\ UNCHANGED <<authVars, builderVars>>

\* ------------------------------------------------ token service: getToken()
\* Mutant of initializeCredentialIfNeeded: the test of clientId alone comes
\* first, so a service principal is never selected.
initializeCredentialIfNeeded_ClientIdFirst(cfg) ==
  IF ~Falsy(cfg.clientId)
  THEN DefaultAzureCredential(cfg.clientId)
  ELSE IF ~Falsy(cfg.tenantId) /\ ~Falsy(cfg.clientSecret)
       THEN ClientSecretCredential(cfg.tenantId, cfg.clientId, cfg.clientSecret)
       ELSE DefaultAzureCredential(Undefined)

\* initializeCredentialIfNeeded(), the try block: the credential the
\* configuration selects.
initializeCredentialIfNeeded(cfg) ==
  IF ~Falsy(cfg.tenantId) /\ ~Falsy(cfg.clientId) /\ ~Falsy(cfg.clientSecret)
  THEN ClientSecretCredential(cfg.tenantId, cfg.clientId, cfg.clientSecret)
  ELSE IF ~Falsy(cfg.clientId)
       THEN DefaultAzureCredential(cfg.clientId)
       ELSE DefaultAzureCredential(Undefined)

\* needsRefresh of refreshTokenIfNeeded()
needsRefresh ==
  \/ cachedToken = NoToken
  \/ cachedToken.expiresOnTimestamp - now < refreshMargin(azService, azConfig)

\* !this.cachedToken?.token
noToken == Falsy(cachedToken.token)

\* refreshTokenIfNeeded() up to its await, and the rest of getToken() when
\* it does not await.  rest is the bag of the other suspended calls, cred is
\* this.credential.
refreshTokenIfNeeded(rest, from, cred) ==
  /\ UNCHANGED cachedToken
  /\ IF cred = NoCredential
     THEN /\ azCalls' = rest
          /\ azEv' = AzEvent("getToken.noCredential", from,
                             Threw(AzureAuthenticationError("Azure credential not initialized",
                                                            "token_refresh", "")))
     ELSE IF needsRefresh
          THEN /\ azCalls' = rest (+) SetToBag({[pc |-> "provider"]})
               /\ azEv' = AzEvent("getToken.request", from, Pending)
          ELSE /\ azCalls' = rest
               /\ azEv' = IF noToken
                          THEN AzEvent("getToken.noValidToken", from, Threw(NoValidToken))
                          ELSE AzEvent("getToken.cached", from, Resolved(cachedToken.token))

\* Mutant of GetTokenStart: initializeCredentialIfNeeded() has no early
\* return, so every call imports the library and constructs a credential.
GetTokenStart_AlwaysImports ==
  /\ BagCardinality(azCalls) < MaxTokenCalls
  /\ azCalls' = azCalls (+) SetToBag({[pc |-> "import"]})
  /\ azEv' = AzEvent("getToken.import", "call", Pending)
  /\ UNCHANGED cachedToken
  /\ UNCHANGED <<azService, azConfig, credential, now>>
  /\ UNCHANGED <<lifecycleVars, builderVars>>

\* getToken(), from the call to its first suspension: the import of the
\* identity library when there is no credential yet, else the request of a
\* token when one is needed.
GetTokenStart ==
  /\ BagCardinality(azCalls) < MaxTokenCalls
  /\ IF credential = NoCredential
     THEN /\ azCalls' = azCalls (+) SetToBag({[pc |-> "import"]})
          /\ azEv' = AzEvent("getToken.import", "call", Pending)
          /\ UNCHANGED cachedToken
     ELSE refreshTokenIfNeeded(azCalls, "call", credential)
  /\ UNCHANGED <<azService, azConfig, credential, now>>
  /\ UNCHANGED <<lifecycleVars, builderVars>>

\* Mutant of ImportDone: the catch block is missing, so the error of the
\* constructor comes out as it is.
ImportDone_RawError(c, constructs) ==
  /\ c \in BagToSet(azCalls)
  /\ c.pc = "import"
  /\ IF constructs
     THEN /\ credential' = initializeCredentialIfNeeded(azConfig)
          /\ refreshTokenIfNeeded(azCalls (-) SetToBag({c}), "import", credential')
     ELSE /\ azCalls' = azCalls (-) SetToBag({c})
          /\ azEv' = AzEvent("getToken.initFailed", "import", Threw(ConstructionError))
          /\ UNCHANGED <<credential, cachedToken>>
  /\ UNCHANGED <<azService, azConfig, now>>
  /\ UNCHANGED <<lifecycleVars, builderVars>>

\* getToken(), resumed when the import has resolved: the constructor of the
\* credential returns (constructs) or throws; then refreshTokenIfNeeded().
ImportDone(c, constructs) ==
  /\ c \in BagToSet(azCalls)
  /\ c.pc = "import"
  /\ IF constructs
     THEN /\ credential' = initializeCredentialIfNeeded(azConfig)
          /\ refreshTokenIfNeeded(azCalls (-) SetToBag({c}), "import", credential')
     ELSE /\ azCalls' = azCalls (-) SetToBag({c})
          /\ azEv' = AzEvent("getToken.initFailed", "import", Threw(InitializationFailed))
          /\ UNCHANGED <<credential, cachedToken>>
  /\ UNCHANGED <<azService, azConfig, now>>
  /\ UNCHANGED <<lifecycleVars, builderVars>>

\* What credential.getToken(scope) gives: it throws, or resolves with null,
\* or with an AccessToken that expires lifetime ms from now.
ProviderOutcomes ==
  [kind : {"token"}, token : TokenValues, lifetime : Lifetimes]
    \cup [kind : {"throws", "null"}, token : {Undefined}, lifetime : {0}]

\* refreshTokenIfNeeded(), resumed when credential.getToken() settles.
ProviderDone(c, outcome) ==
  /\ c \in BagToSet(azCalls)
  /\ c.pc = "provider"
  /\ CASE outcome.kind = "token" ->
            /\ cachedToken' = [token |-> outcome.token,
                               expiresOnTimestamp |-> now + outcome.lifetime]
            /\ azCalls' = (azCalls (-) SetToBag({c})) (+) SetToBag({[pc |-> "refreshed"]})
            /\ azEv' = AzEvent("getToken.stored", "", Pending)
       [] outcome.kind = "null" ->
            /\ azCalls' = azCalls (-) SetToBag({c})
            /\ azEv' = AzEvent("getToken.tokenNull", "", Threw(TokenIsNullRethrown))
            /\ UNCHANGED cachedToken
       [] outcome.kind = "throws" ->
            /\ azCalls' = azCalls (-) SetToBag({c})
            /\ azEv' = AzEvent("getToken.providerFailed", "", Threw(ProviderFailed))
            /\ UNCHANGED cachedToken
  /\ UNCHANGED <<azService, azConfig, credential, now>>
  /\ UNCHANGED <<lifecycleVars, builderVars>>

\* getToken(), resumed when refreshTokenIfNeeded() has stored a token.
GetTokenDone(c) ==
  /\ c \in BagToSet(azCalls)
  /\ c.pc = "refreshed"
  /\ azCalls' = azCalls (-) SetToBag({c})
  /\ azEv' = IF noToken
             THEN AzEvent("getToken.emptyToken", "", Threw(NoValidToken))
             ELSE AzEvent("getToken.refreshed", "", Resolved(cachedToken.token))
  /\ UNCHANGED <<azService, azConfig, credential, cachedToken, now>>
  /\ UNCHANGED <<lifecycleVars, builderVars>>

\* Time passes: Date.now() moves to a later instant.
ClockTick(t) ==
  /\ t > now
  /\ now' = t
  /\ azEv' = AzEvent("clock", "", NoCall)
  /\ UNCHANGED <<azService, azConfig, credential, cachedToken, azCalls>>
  /\ UNCHANGED <<lifecycleVars, builderVars>>

\* ------------------------------------------------------- specification
InitOutcomes == {"ok", TimeoutMessage, OtherMessage}

\* What the getToken() call of the option builder can settle with, as far as
\* init() tells the outcomes apart: a token, or a failure.
InitTokenOutcomes == {Resolved("token-1"), Threw(ProviderFailed)}

\* The suspension points a call can be at.
Suspensions ==
  [pc : {"init_getOptions", "init_initialize", "migrate_run", "close_destroy"},
   ds : 0..MaxCalls]

Next ==
  \/ InitStart
  \/ \E c \in Suspensions, token \in InitTokenOutcomes : InitOptionsDone(c, token)
  \/ \E c \in Suspensions, outcome \in InitOutcomes : InitDone(c, outcome)
  \/ MigrateStart
  \/ \E c \in Suspensions, ok \in BOOLEAN : MigrateDone(c, ok)
  \/ CloseStart
  \/ \E c \in Suspensions : CloseDone(c)
  \/ \E held \in BOOLEAN : TimerFire(held)
  \/ \E ok \in BOOLEAN : PingDone(ok)

Spec == Init /\ [][Next]_vars

\* The timer queue fires every armed timer, and the engine settles every
\* query and every destroy() it was given.
LiveSpec ==
  /\ Spec
  /\ WF_vars(\E held \in BOOLEAN : TimerFire(held))
  /\ WF_vars(\E ok \in BOOLEAN : PingDone(ok))
  /\ WF_vars(\E c \in Suspensions : CloseDone(c))

\* The suspension points a call of getToken() can be at.
TokenSuspensions == [pc : {"import", "provider", "refreshed"}]

\* A token service of either class, with any configuration, and its callers.
TokenInit ==
  /\ LifecycleIdle
  /\ BuilderIdle
  /\ azService \in AzServices
  /\ azConfig \in AzConfigs(azService)
  /\ credential = NoCredential
  /\ cachedToken = NoToken
  /\ now = 0
  /\ azCalls = EmptyBag
  /\ azEv = AzEvent("new", "", NoCall)

TokenNext ==
  \/ GetTokenStart
  \/ \E c \in TokenSuspensions, constructs \in BOOLEAN : ImportDone(c, constructs)
  \/ \E c \in TokenSuspensions, outcome \in ProviderOutcomes : ProviderDone(c, outcome)
  \/ \E c \in TokenSuspensions : GetTokenDone(c)
  \/ \E t \in Clock : ClockTick(t)

TokenSpec == TokenInit /\ [][TokenNext]_vars

\* ---------------------------------------------- option builder on its own
\* The variations of the mysqldb and postgresdb sections in the fields the
\* drivers need: all given, one of them undefined, or the host empty.
RequiredFieldVariants(section) ==
  {section,
   [section EXCEPT !.host = Undefined],
   [section EXCEPT !.host = ""],
   [section EXCEPT !.port = <<>>],
   [section EXCEPT !.user = Undefined],
   [section EXCEPT !.database = Undefined]}

SslSections ==
  [enabled : BOOLEAN, ca : {"", "ca-content"}, cert : {"", "cert-content"},
   key : {"", "key-content"}, rejectUnauthorized : BOOLEAN]

SqliteSections ==
  [database : {Undefined, "", "database.sqlite", "/data/n8n.sqlite"},
   poolSize : {-1, 0, 4}, enableWAL : BOOLEAN]

LoggingSections ==
  {[enabled |-> FALSE, options |-> LogAll, maxQueryExecutionTime |-> 0],
   [enabled |-> TRUE, options |-> LogAll, maxQueryExecutionTime |-> 1000],
   [enabled |-> TRUE, options |-> LogQueryError, maxQueryExecutionTime |-> 0]}

UnknownSelectors == {"unsupported", "mongodb"}

\* The configurations an option builder is constructed with: under each
\* selector the sections that selector reads vary, and so does
\* postgresdb.authType.
BuilderConfigs ==
  UNION {
    {[DefaultConfig EXCEPT !.type = "sqlite", !.sqlite = s, !.logging = l,
                           !.postgresdb.authType = a] :
       s \in SqliteSections, l \in LoggingSections, a \in AuthTypes},
    {[DefaultConfig EXCEPT !.type = "postgresdb",
                           !.postgresdb = [p EXCEPT !.authType = a, !.ssl = ssl]] :
       p \in RequiredFieldVariants(DefaultConfig.postgresdb), a \in AuthTypes,
       ssl \in SslSections},
    {[DefaultConfig EXCEPT !.type = t, !.mysqldb = m, !.postgresdb.authType = a] :
       t \in {"mysqldb", "mariadb"}, m \in RequiredFieldVariants(DefaultConfig.mysqldb),
       a \in AuthTypes},
    {[DefaultConfig EXCEPT !.type = t, !.postgresdb.authType = a] :
       t \in UnknownSelectors, a \in AuthTypes}}

\* What a call of getToken() on a new token service can settle with: a
\* non-empty token, or one of its failures.
TokenOutcomes ==
  {Resolved(v) : v \in TokenValues \ {""}}
    \cup {Threw(e) : e \in {InitializationFailed, ProviderFailed, TokenIsNullRethrown,
                            NoValidToken}}

\* A call of getOptions(), from the call to the settling of its promise.
GetOptions(token) ==
  /\ LET r == getOptions(config, token)
     IN built' = [status |-> "settled",
                  token |-> IF r.tokenCalls > 0 THEN token ELSE NoCall,
                  result |-> r]
  /\ UNCHANGED <<lifecycleVars, authVars>>

OptionsInit ==
  /\ config \in BuilderConfigs
  /\ ManagerIdle
  /\ AuthIdle
  /\ BuilderIdle

OptionsNext == \E token \in TokenOutcomes : GetOptions(token)

OptionsSpec == OptionsInit /\ [][OptionsNext]_vars

TypeOK ==
  /\ dataSource \in 0..Len(dataSources)
  /\ pingTimer \in {"undefined", "armed", "fired"}
  /\ orphans \in 0..MaxLoops
  /\ sinceClose \in {"no", "opening", "busy", "quiet"}
  /\ pinging \in 0..MaxLoops
  /\ LoopsAlive <= MaxLoops
  /\ BagToSet(calls) \subseteq Suspensions
  /\ BagCardinality(calls) <= MaxCalls

\* ===================================================================
\* Properties
\* ===================================================================
\* The steps in which a call of migrate() starts.
MigrateStartSteps == {"migrate.notInitialized", "migrate.notConnected", "migrate.runMigrations"}

\* C1 (as claimed): a call of migrate() made when no init() has completed
\* successfully (connected has never been true; none is under way) fails with
\* DbConnectionNotInitializedError and runs no migrations, leaving
\* migrated = false.  The code tests only whether a DataSource object was
\* created: after an init() whose open failed, migrate() calls
\* runMigrations() and the engine's own error comes out.
C1_MigrateNeedsSuccessfulInit ==
  (ev.step \in MigrateStartSteps /\ ~everConnected /\ Opening = {}) =>
    /\ ev.result = Threw(DbConnectionNotInitializedError)
    /\ ~connectionState.migrated

\* C2: migrated = true implies that connected was true in this or an
\* earlier state of the manager.
C2_MigratedImpliesWasConnected ==
  connectionState.migrated => everConnected

\* C2 witness: migrations have run and a failed health check has since
\* flipped connected to false.
C2_Witness ==
  /\ connectionState.migrated
  /\ ~connectionState.connected
  /\ ev.step = "ping.failed"

\* The steps in which a tick is scheduled (scheduleNextPing is called).
ScheduleStep ==
  \/ ev.step \in {"ping.ok", "ping.failed"}
  \/ ev.step = "init.connected" /\ ~inTest

\* C3 (as claimed): once close() has returned (no init() being under way),
\* and until init() is called again, no step schedules a tick and none
\* issues a liveness query.  A query that was in flight when close() ran
\* still schedules its next tick.
C3_NothingAfterClose ==
  sinceClose \in {"busy", "quiet"} => ~(ScheduleStep \/ ev.step = "ping.query")

\* C3 (amended): once close() has returned leaving the handle closed, with
\* no liveness query awaited and no init() under way, no step schedules a
\* tick and none issues a liveness query until init() is called again.
C3_NothingAfterQuietClose ==
  sinceClose = "quiet" => ~(ScheduleStep \/ ev.step = "ping.query")

\* C3 witness: after such a close() a timer that was still armed has fired,
\* and its tick did nothing.
C3_Witness ==
  /\ sinceClose = "quiet"
  /\ ev.step = "ping.skip"

\* C4 (as claimed): a tick that fires while no handle is open issues no
\* query, reports nothing, leaves connected unchanged and schedules the next
\* tick (the timer that fired is replaced by a new one).
C4_SkipStillReschedules ==
  [][ev'.step = "ping.skip" =>
       /\ pinging' = pinging
       /\ ev'.reported = <<>>
       /\ connectionState' = connectionState
       /\ TimersArmed' = TimersArmed]_vars

\* C4 (amended): a tick that fires while no handle is open issues no query,
\* reports nothing, leaves connected unchanged and schedules no next tick:
\* the loop of that timer ends.
C4_SkipEndsLoop ==
  [][ev'.step = "ping.skip" =>
       /\ pinging' = pinging
       /\ ev'.reported = <<>>
       /\ connectionState' = connectionState
       /\ TimersArmed' = TimersArmed - 1]_vars

\* C4 witness: a tick found no open handle, and no timer and no query is left.
C4_Witness ==
  /\ ev.step = "ping.skip"
  /\ TimersArmed = 0
  /\ pinging = 0

\* C5: a tick whose query settles, either way, schedules exactly one next
\* tick and opens nothing (no DataSource is created or initialized, no call
\* is started); and under LiveSpec a scheduled tick leads to a liveness
\* query unless the handle is closed, and a query leads to its settling: so
\* ticks go on for as long as the handle stays open.
C5_TicksGoOn ==
  /\ [][ev'.step \in {"ping.ok", "ping.failed"} =>
          /\ TimersArmed' = TimersArmed + 1
          /\ pingTimer' = "armed"
          /\ UNCHANGED <<dataSources, dataSource, calls>>]_vars
  /\ (ScheduleStep /\ isInitialized) ~> (ev.step = "ping.query" \/ ~isInitialized)
  /\ (ev.step = "ping.query") ~> (ev.step \in {"ping.ok", "ping.failed"})

\* C5 witness: a query failed on an open handle and the next tick is armed.
C5_Witness ==
  /\ ev.step = "ping.failed"
  /\ isInitialized
  /\ pingTimer = "armed"

\* C6: a liveness query that succeeds leaves connected = true and reports
\* nothing; one that fails leaves connected = false and gives exactly that
\* one error to the error reporter; the tick returns normally in both cases.
C6_QueryOutcomeSetsConnected ==
  /\ ev.step = "ping.ok" =>
       /\ connectionState.connected
       /\ ev.reported = <<>>
       /\ ev.result = Returned
  /\ ev.step = "ping.failed" =>
       /\ ~connectionState.connected
       /\ ev.reported = <<QueryError>>
       /\ ev.result = Returned

\* C6 witness: the query of a tick failed on a handle that close() had
\* destroyed meanwhile.
C6_Witness ==
  /\ ev.step = "ping.failed"
  /\ ~isInitialized

\* The steps in which a call of init() starts.
InitStartSteps == {"init.noop", "init.getOptions", "init.initialize", "init.alreadyInitialized"}

\* C7: a call of init() made while connected = true returns at once: no
\* options are built, nothing is opened, no tick is scheduled, and connected
\* and migrated are as they were.
C7_InitWhileConnectedIsNoop ==
  [][(ev'.step \in InitStartSteps /\ connectionState.connected) =>
       /\ ev'.step = "init.noop"
       /\ ev'.result = Returned
       /\ UNCHANGED <<dataSources, dataSource, pingTimer, orphans, pinging,
                      connectionState, calls>>]_vars

\* C7 witness: init() was called on a connected manager.
C7_Witness ==
  /\ ev.step = "init.noop"
  /\ connectionState.connected

\* The steps in which init() fails because initialize() threw.
InitFailSteps == {"init.failed", "init.alreadyInitialized"}

\* The message of the error the engine threw, read off what init() threw.
EngineMessage(e) == IF e.name = "DbConnectionTimeoutError" THEN e.cause ELSE e.message

\* C8: when initialize() throws, init() throws DbConnectionTimeoutError
\* with the configured connect timeout and the engine's error as cause if
\* the options are for postgres and the engine's message is the timeout
\* message; in every other case it throws the engine's error as it is.
C8_TimeoutClassification ==
  ev.step \in InitFailSteps =>
    LET e == ev.result.error
        postgres == dataSources[dataSource].options.type = "postgres"
    IN /\ ev.result.status = "threw"
       /\ IF postgres /\ EngineMessage(e) = TimeoutMessage
          THEN /\ e.name = "DbConnectionTimeoutError"
               /\ e.cause = TimeoutMessage
               /\ e.configuredTimeoutInMs = config.postgresdb.connectionTimeoutMs
          ELSE /\ e.name \in {"Error", "CannotConnectAlreadyConnectedError"}
               /\ e.cause = ""
               /\ e.configuredTimeoutInMs = Undefined

\* C8 witness: a postgres open timed out.
C8_Witness ==
  /\ ev.step = "init.failed"
  /\ ev.result.error.name = "DbConnectionTimeoutError"

\* C9: the step in which init() succeeds sets connected = true and schedules
\* one tick outside test mode, none in test mode.
C9_InitStartsHealthCheck ==
  [][ev'.step = "init.connected" =>
       /\ connectionState'.connected
       /\ ev'.result = Returned
       /\ IF inTest
          THEN TimersArmed' = TimersArmed /\ pingTimer' = pingTimer
          ELSE TimersArmed' = TimersArmed + 1 /\ pingTimer' = "armed"]_vars

\* C9 witness: init() has succeeded outside test mode and one tick is pending.
C9_Witness ==
  /\ ev.step = "init.connected"
  /\ ~inTest
  /\ TimersArmed = 1

\* The steps in which a call of close() starts, and those in which one returns.
CloseStartSteps == {"close.returned", "close.destroy"}
CloseReturnSteps == {"close.returned", "close.destroyed"}

\* C10 (as claimed): close() called before any DataSource exists, or right
\* after another close() has returned (no init() being under way), returns
\* without throwing, destroys nothing and changes no state.  A tick that
\* settles while the first close() awaits destroy() arms a timer, which the
\* second close() cancels.
C10_CloseChangesNothing ==
  [][(/\ ev'.step \in CloseStartSteps
      /\ \/ dataSource = 0
         \/ ev.step \in CloseReturnSteps /\ sinceClose # "opening") =>
       /\ ev'.step = "close.returned"
       /\ ev'.result = Returned
       /\ UNCHANGED <<dataSources, dataSource, pingTimer, orphans, pinging,
                      connectionState, calls>>]_vars

\* C10 (amended): close() called while no handle is open (before any init(),
\* or after a close() that destroyed it) returns without throwing, destroys
\* nothing, and changes nothing but this.pingTimer, which it leaves
\* undefined; with no DataSource created yet it changes nothing at all.
C10_CloseOnClosedHandle ==
  [][(ev'.step \in CloseStartSteps /\ ~isInitialized) =>
       /\ ev'.step = "close.returned"
       /\ ev'.result = Returned
       /\ pingTimer' = "undefined"
       /\ dataSource = 0 => pingTimer = "undefined"
       /\ UNCHANGED <<dataSources, dataSource, orphans, pinging, connectionState, calls>>]_vars

\* C10 witness: close() was called again after a close() that had destroyed
\* the handle.
C10_Witness ==
  /\ ev.step = "close.returned"
  /\ everConnected
  /\ ~isInitialized
  /\ sinceClose = "quiet"

\* C11: a call of migrate() made after an init() has succeeded calls
\* runMigrations() on the DataSource (the guard of line 75 lets it through);
\* when runMigrations() resolves, migrate() returns and migrated = true;
\* when it rejects, migrate() throws that same error and connectionState is
\* as it was.
C11_MigrateRunsAndFlags ==
  /\ [][(ev'.step \in MigrateStartSteps /\ everConnected) =>
          /\ ev'.step \in {"migrate.runMigrations", "migrate.notConnected"}
          /\ isInitialized => ev'.step = "migrate.runMigrations" /\ ev'.result = Pending
          /\ connectionState' = connectionState]_vars
  /\ [][ev'.step = "migrate.migrated" =>
          /\ ev'.result = Returned
          /\ connectionState'.migrated
          /\ connectionState'.connected = connectionState.connected]_vars
  /\ [][ev'.step = "migrate.failed" =>
          /\ ev'.result = Threw(MigrationError)
          /\ connectionState' = connectionState]_vars

\* C11 witness: migrations had run, and a later run of them has failed:
\* migrated is still true.
C11_Witness ==
  /\ ev.step = "migrate.failed"
  /\ connectionState.migrated
  /\ everConnected

\* C12 (as claimed): options are built successfully at most once per
\* manager, so at most one DataSource is ever created from them.  Two calls
\* of init() that overlap both find this.dataSource unset before either
\* getOptions() has resolved, and each builds options and creates a
\* DataSource.
C12_OptionsBuiltOnce ==
  Len(dataSources) <= 1

\* The steps in which a call of getToken() tests whether the cached token
\* needs a refresh.
FreshnessSteps ==
  {"getToken.request", "getToken.cached", "getToken.noValidToken", "getToken.noCredential"}

\* Remaining lifetime of the cached token.
Remaining == cachedToken.expiresOnTimestamp - now

\* A call of getToken() made while no other call is in flight reaches the
\* test of freshness in this step.
SequentialCall == azEv'.step \in FreshnessSteps /\ azEv'.from = "call" /\ azCalls = EmptyBag

\* C13 (as claimed): a call of getToken() (no other being in flight) that
\* finds a token cached with expiresAt - now >= refreshMargin makes no
\* provider call and returns the cached value, leaving the cache as it is;
\* one that finds no token, or one closer to expiry, makes a provider call;
\* and a call that has stored the provider's token returns the value of the
\* cached token.  A cached token whose string is empty is not returned: the
\* call throws.
C13_FreshTokenReused ==
  /\ [][SequentialCall =>
          IF cachedToken # NoToken /\ Remaining >= refreshMargin(azService, azConfig)
          THEN /\ azEv'.step = "getToken.cached"
               /\ azEv'.result = Resolved(cachedToken.token)
               /\ UNCHANGED <<cachedToken, azCalls>>
          ELSE azEv'.step = "getToken.request"]_vars
  /\ [][azEv'.step = "getToken.refreshed" =>
          azEv'.result = Resolved(cachedToken.token)]_vars

\* The margin C14 claims, in milliseconds: 300 000 when none is configured,
\* the configured number of seconds when one is.
ClaimedMargin(cfg) ==
  IF cfg.tokenRefreshMargin = NotGiven
  THEN 300000
  ELSE cfg.tokenRefreshMargin[1] * 1000

\* C14 (as claimed): a call of getToken() (no other being in flight) that finds a token cached requests
\* a new one exactly when the remaining lifetime of the cached token is below
\* the margin: 300 000 ms when the instance is given none, the configured
\* margin when it is given one.  A configured margin of 0 counts as not
\* given, and 300 s are used.
C14_RefreshMargin ==
  [][(SequentialCall /\ cachedToken # NoToken) =>
       (azEv'.step = "getToken.request" <=> Remaining < ClaimedMargin(azConfig))]_vars

\* Present, as the claim says it: set and not empty.
NonEmpty(x) == x # Undefined /\ x # ""

\* C15: once the credential is constructed it is, and stays, the one the
\* precedence selects: a ClientSecretCredential of tenant id, client id and
\* client secret when all three are non-empty; otherwise a
\* DefaultAzureCredential keyed by the client id when that is non-empty;
\* otherwise a DefaultAzureCredential without options.
C15_AuthModeSelection ==
  credential # NoCredential =>
    IF NonEmpty(azConfig.tenantId) /\ NonEmpty(azConfig.clientId) /\ NonEmpty(azConfig.clientSecret)
    THEN /\ credential.class = "ClientSecretCredential"
         /\ credential.tenantId = azConfig.tenantId
         /\ credential.clientId = azConfig.clientId
         /\ credential.clientSecret = azConfig.clientSecret
    ELSE /\ credential.class = "DefaultAzureCredential"
         /\ credential.managedIdentityClientId =
              (IF NonEmpty(azConfig.clientId) THEN azConfig.clientId ELSE Undefined)

\* C15 witness: tenant id and client id are set, the client secret is not,
\* and a second call of getToken() has returned on the credential of the user-assigned
\* managed identity.
C15_Witness ==
  /\ azConfig.tenantId = "tenant-123"
  /\ azConfig.clientSecret = Undefined
  /\ credential.managedIdentityClientId = "client-123"
  /\ azEv.step = "getToken.cached"

\* The steps in which getToken() ends because the provider gave no token:
\* it resolved with null, or with a token whose string is empty (found
\* empty right after the refresh, or later in the cache).
NoTokenSteps == {"getToken.tokenNull", "getToken.emptyToken", "getToken.noValidToken"}

\* C16: getToken() throws an AzureAuthenticationError of operation
\* initialization, with the constructor's error as cause, when the
\* construction of the credential throws; and one of operation
\* token_acquisition when the provider call throws (with the provider's
\* error as cause), resolves with null, or gives an empty token.
C16_FailuresTaggedByPhase ==
  /\ azEv.step = "getToken.initFailed" =>
       /\ azEv.result.status = "threw"
       /\ azEv.result.error.name = "AzureAuthenticationError"
       /\ azEv.result.error.operation = "initialization"
       /\ azEv.result.error.cause = ConstructionError.message
  /\ azEv.step = "getToken.providerFailed" =>
       /\ azEv.result.status = "threw"
       /\ azEv.result.error.name = "AzureAuthenticationError"
       /\ azEv.result.error.operation = "token_acquisition"
       /\ azEv.result.error.cause = ProviderError.message
  /\ azEv.step \in NoTokenSteps =>
       /\ azEv.result.status = "threw"
       /\ azEv.result.error.name = "AzureAuthenticationError"
       /\ azEv.result.error.operation = "token_acquisition"

\* C16 witness: the provider resolved with null while a token that was about
\* to expire was cached.
C16_Witness ==
  /\ azEv.step = "getToken.tokenNull"
  /\ cachedToken # NoToken

\* ------------------------------------------------------------------
\* The selectors the switch of getOptions() names.
KnownSelectors == {"sqlite", "postgresdb", "mysqldb", "mariadb"}

\* C17: for a backend selector outside {sqlite, postgresdb, mysqldb, mariadb}
\* getOptions() rejects with the UserError 'Database type currently not
\* supported' that carries the selector (extra.dbType); it produces no
\* options and makes no call of the token service, whatever
\* postgresdb.authType is.
C17_UnsupportedSelectorRejected ==
  (built.status = "settled" /\ config.type \notin KnownSelectors) =>
    /\ ~built.result.ok
    /\ built.result.error.name = "UserError"
    /\ built.result.error.message = "Database type currently not supported"
    /\ built.result.error.extra = [dbType |-> config.type]
    /\ built.result.options = NoOptions
    /\ built.result.tokenCalls = 0
    /\ built.token = NoCall

C17_Witness ==
  /\ built.status = "settled"
  /\ config.type = "mongodb"
  /\ isAzureAuthEnabled(config)
  /\ ~built.result.ok

\* ------------------------------------------------------------------
\* A sub-field the selected backend needs is missing: the database, host,
\* port or user of a network backend, or the file name of sqlite.
MissingRequired(cfg) ==
  CASE cfg.type = "sqlite" -> cfg.sqlite.database \in {Undefined, ""}
    [] cfg.type = "postgresdb" ->
         \/ cfg.postgresdb.database \in {Undefined, ""}
         \/ cfg.postgresdb.host \in {Undefined, ""}
         \/ cfg.postgresdb.user \in {Undefined, ""}
         \/ cfg.postgresdb.port = <<>>
    [] cfg.type \in {"mysqldb", "mariadb"} ->
         \/ cfg.mysqldb.database \in {Undefined, ""}
         \/ cfg.mysqldb.host \in {Undefined, ""}
         \/ cfg.mysqldb.user \in {Undefined, ""}
         \/ cfg.mysqldb.port = <<>>
    [] OTHER -> FALSE

\* The options carry database, host, port and user of the section as given.
CopiedVerbatim(options, section) ==
  /\ options.database = section.database
  /\ options.host = section.host
  /\ options.port = section.port
  /\ options.username = section.user

\* C18 (as claimed): getOptions() for a selected backend one of whose
\* required sub-fields is missing rejects instead of resolving with options.
C18_MissingFieldsRejected ==
  (built.status = "settled" /\ MissingRequired(config)) => ~built.result.ok

\* C18 (amended): getOptions() checks no sub-field.  For mysqldb and mariadb
\* it always resolves, and for postgresdb it resolves unless the getToken()
\* call it made failed; the options carry database, host, port and user as
\* configured, undefined or empty included.  For sqlite it rejects only when
\* the file name is undefined (the TypeError of path.resolve); an empty file
\* name resolves to n8nFolder.
C18_SubFieldsNotValidated ==
  built.status = "settled" =>
    /\ config.type \in {"mysqldb", "mariadb"} =>
         /\ built.result.ok
         /\ CopiedVerbatim(built.result.options, config.mysqldb)
    /\ config.type = "postgresdb" =>
         /\ built.result.ok <=> built.token.status # "threw"
         /\ built.result.ok => CopiedVerbatim(built.result.options, config.postgresdb)
    /\ config.type = "sqlite" =>
         /\ built.result.ok <=> config.sqlite.database # Undefined
         /\ ~built.result.ok => built.result.error.name = "TypeError"
         /\ config.sqlite.database = "" => built.result.options.database = n8nFolder

C18_Witness ==
  /\ built.status = "settled"
  /\ config.type = "mysqldb"
  /\ config.mysqldb.host = Undefined
  /\ built.result.ok
  /\ built.result.options.host = Undefined

\* ------------------------------------------------------------------
\* C19: the password of the options getOptions() resolves with.  For
\* postgresdb with authType azure_entra_id one call of getToken() is made:
\* when it resolves the password is the token it gave, not
\* postgresdb.password, and when it rejects getOptions() rejects with its
\* error.  For postgresdb with any other authType the password is
\* postgresdb.password and getToken() is not called.  For mysqldb and mariadb
\* the password is mysqldb.password and getToken() is not called, whatever
\* postgresdb.authType is.
C19_PasswordSource ==
  built.status = "settled" =>
    /\ (config.type = "postgresdb" /\ isAzureAuthEnabled(config)) =>
         /\ built.result.tokenCalls = 1
         /\ built.token.status \in {"returned", "threw"}
         /\ built.token.status = "returned" =>
              /\ built.result.ok
              /\ built.result.options.password = built.token.value
              /\ built.result.options.password # config.postgresdb.password
         /\ built.token.status = "threw" =>
              /\ ~built.result.ok
              /\ built.result.error = built.token.error
    /\ (config.type = "postgresdb" /\ ~isAzureAuthEnabled(config)) =>
         /\ built.result.ok
         /\ built.result.options.password = config.postgresdb.password
         /\ built.result.tokenCalls = 0
    /\ config.type \in {"mysqldb", "mariadb"} =>
         /\ built.result.ok
         /\ built.result.options.password = config.mysqldb.password
         /\ built.result.tokenCalls = 0

C19_Witness ==
  /\ built.status = "settled"
  /\ config.type = "postgresdb"
  /\ isAzureAuthEnabled(config)
  /\ built.result.ok
  /\ built.result.options.password = "token-2"

\* ------------------------------------------------------------------
\* C20: the ssl field of the postgres options, for every combination of
\* ssl.ca, ssl.cert, ssl.key, ssl.rejectUnauthorized and ssl.enabled.  When
\* ca, cert and key are all empty and rejectUnauthorized is true, ssl is the
\* boolean ssl.enabled.  Otherwise ssl is the object {ca, cert, key,
\* rejectUnauthorized} with the configured values, an empty string being
\* replaced by undefined.
C20_SslResolution ==
  (built.status = "settled" /\ config.type = "postgresdb" /\ built.result.ok) =>
    LET s == config.postgresdb.ssl
        o == built.result.options.ssl
    IN IF s.ca = "" /\ s.cert = "" /\ s.key = "" /\ s.rejectUnauthorized
       THEN o = [kind |-> "boolean", value |-> s.enabled]
       ELSE /\ o.kind = "TlsOptions"
            /\ o.ca = (IF s.ca = "" THEN Undefined ELSE s.ca)
            /\ o.cert = (IF s.cert = "" THEN Undefined ELSE s.cert)
            /\ o.key = (IF s.key = "" THEN Undefined ELSE s.key)
            /\ o.rejectUnauthorized = s.rejectUnauthorized
            /\ DOMAIN o = {"kind", "ca", "cert", "key", "rejectUnauthorized"}

C20_Witness ==
  /\ built.status = "settled"
  /\ config.type = "postgresdb"
  /\ built.result.ok
  /\ config.postgresdb.ssl.enabled
  /\ config.postgresdb.ssl.ca = ""
  /\ config.postgresdb.ssl.cert = ""
  /\ config.postgresdb.ssl.key = ""
  /\ ~config.postgresdb.ssl.rejectUnauthorized
  /\ built.result.options.ssl.kind = "TlsOptions"
  /\ built.result.options.ssl.ca = Undefined

\* ------------------------------------------------------------------
\* C21: the sqlite variant, for every sqlite.poolSize and sqlite.enableWAL.
\* A pool size of 0 or less gives type 'sqlite' with enableWAL as
\* configured, and no pool fields.  A pool size above 0 gives type
\* 'sqlite-pooled' with that pool size, acquireTimeout 60000, destroyTimeout
\* 5000 and enableWAL true whatever the configured flag is.
C21_SqliteVariant ==
  (built.status = "settled" /\ config.type = "sqlite" /\ built.result.ok) =>
    LET s == config.sqlite
        o == built.result.options
    IN IF s.poolSize > 0
       THEN /\ o.type = "sqlite-pooled"
            /\ o.poolSize = s.poolSize
            /\ o.acquireTimeout = 60000
            /\ o.destroyTimeout = 5000
            /\ o.enableWAL = TRUE
       ELSE /\ o.type = "sqlite"
            /\ o.enableWAL = s.enableWAL
            /\ {"poolSize", "acquireTimeout", "destroyTimeout"} \cap DOMAIN o = {}

C21_Witness ==
  /\ built.status = "settled"
  /\ config.type = "sqlite"
  /\ built.result.ok
  /\ config.sqlite.poolSize = 4
  /\ ~config.sqlite.enableWAL
  /\ built.result.options.type = "sqlite-pooled"
  /\ built.result.options.enableWAL

\* ------------------------------------------------------------------
\* C22 (as claimed): on one manager at most one health-check tick awaits its
\* query and at most one timer is armed, at any time.
C22_OneTickAtATime ==
  /\ pinging <= 1
  /\ TimersArmed <= 1

\* ------------------------------------------------------------------
\* The steps of close(), of migrate(), and of the methods that write
\* connectionState.connected.
CloseSteps == {"close.returned", "close.destroy", "close.destroyed"}
MigrateSteps == MigrateStartSteps \cup {"migrate.migrated", "migrate.failed"}
ConnectedWriterSteps ==
  {"init.connected", "close.destroyed", "ping.ok", "ping.failed"}

\* The writers of connectionState, step by step.
C23_Writers ==
  /\ (ev'.step \in CloseSteps) =>
       /\ connectionState'.migrated = connectionState.migrated
       /\ connectionState'.connected => connectionState.connected
  /\ (connectionState'.migrated # connectionState.migrated) =>
       (ev'.step \in MigrateSteps)
  /\ (connectionState'.connected # connectionState.connected) =>
       (ev'.step \in ConnectedWriterSteps)

\* C23: connectionState starts as connected = false, migrated = false.  A
\* step of close() leaves migrated as it is and changes connected, if at
\* all, to false.  migrated changes only in a step of migrate(), and
\* connected only in a step of init(), close() or ping().
C23_ConnectionStateFrame ==
  /\ connectionState = [connected |-> FALSE, migrated |-> FALSE]
  /\ [][C23_Writers]_vars

C23_Witness ==
  /\ ev.step = "close.destroyed"
  /\ connectionState.migrated
  /\ ~connectionState.connected

\* ------------------------------------------------------------------
\* A step in which a credential is constructed: a call resumed from the
\* import whose constructor returned.
Constructs == azEv'.from = "import" /\ azEv'.step # "getToken.initFailed"

\* Calls of getToken() suspended in the import.
Importing(bag) == CopiesIn([pc |-> "import"], bag)

C24_Stable ==
  /\ (credential # NoCredential) => (credential' = credential)
  /\ (credential # NoCredential /\ azEv'.from = "call") =>
       /\ azEv'.step # "getToken.import"
       /\ Importing(azCalls') = Importing(azCalls)
  /\ (Constructs /\ credential # NoCredential) => (Importing(azCalls) > 0)

Quiescent == calls = EmptyBag /\ pinging = 0 /\ TimersArmed = 0

\* C25 (as claimed): once close() has returned with no init() under way,
\* init() was not called again and every tick that was in flight has
\* finished, connected is false.
C25_ClosedMeansNotConnected ==
  (sinceClose \in {"busy", "quiet"} /\ Quiescent) => ~connectionState.connected

\* ------------------------------------------------------------------
\* C26 (as claimed): when a call of getToken() has failed, the cache holds
\* no token that makes getToken() fail: it is empty, or it holds a token
\* getToken() can return.
C26_FailureLeavesCacheUsable ==
  azEv.result.status = "threw" => (cachedToken = NoToken \/ ~noToken)

\* ------------------------------------------------------------------
\* The steps in which a call of init() fails: getOptions() rejected, or
\* initialize() rejected (at once, or after the wait).
FailedInitSteps == {"init.getOptionsFailed", "init.failed", "init.alreadyInitialized"}

\* The steps in which a call of init() sets about opening the handle.
OpenAttemptSteps == {"init.getOptions", "init.initialize", "init.alreadyInitialized"}

\* A step of the manager under C27.
C27_Step ==
  /\ (ev'.step \in FailedInitSteps) =>
       /\ ev'.result.status = "threw"
       /\ connectionState' = connectionState
       /\ ~connectionState.connected => ~connectionState'.connected
       /\ pingTimer' = pingTimer
       /\ orphans' = orphans
       /\ pinging' = pinging
  /\ (ev'.step \in InitStartSteps /\ ~connectionState.connected) =>
       (ev'.step \in OpenAttemptSteps)
  /\ (ev'.step = "init.noop") => connectionState.connected

C28_OverlappingInitOpensOnce ==
  /\ Copies(At("init_getOptions")) <= 1
  /\ Copies(At("init_initialize")) <= 1
  /\ Len(dataSources) <= 1

====
